---- MODULE Spec2Model ----
(***************************************************************************)
(* Model of the navitia "types" package: the PlaceCountainer -> Place      *)
(* resolution (types/place.go), the ID helpers Check and Type, and the     *)
(* custom JSON decoder of Coordinates (types/coordinates_json.go).         *)
(*                                                                         *)
(* Go strings whose characters matter (an ID, the "lat"/"lon" texts) are   *)
(* sequences of one-character strings; strings that are only compared      *)
(* (EmbeddedType, Name) are TLA+ strings.                                  *)
(***************************************************************************)
EXTENDS Integers, Sequences, FiniteSets, TLC

VARIABLES
    pc,         \* PlaceCountainer the Place method is called on
    placeRet,   \* what Place() returned: [called, place, err]
    id,         \* the ID that Check and Type are called on
    checkRet,   \* what ID.Check() returned: [called, err]
    typeRet,    \* what ID.Type() returned: [called, val]
    c,          \* the Coordinates receiver of UnmarshalJSON
    b,          \* the JSON document handed to UnmarshalJSON
    cPre,       \* the receiver as it was when UnmarshalJSON was entered
    src,        \* the Coordinates value b was encoded from, if any
    jsonRet     \* what UnmarshalJSON returned: [called, err]

vars == <<pc, placeRet, id, checkRet, typeRet, c, b, cPre, src, jsonRet>>

----------------------------------------------------------------------------
(* Bounds of the model. *)

\* Quality ranges over 0..MaxQuality.
MaxQuality == 1
\* An ID is the concatenation of at most MaxParts pieces.
MaxParts == 3
\* The "lat" and "lon" texts of a document hold at most MaxText characters
\* together.
MaxText == 3
\* A Coordinates value has a decimal mantissa of at most MaxMant.
MaxMant == 12
\* ... and a decimal exponent between -MaxExp and MaxExp.
MaxExp == 2

----------------------------------------------------------------------------
(* Errors.  The nil error and the errors the package builds. *)

NilError == [kind |-> "nil"]

\* errors.Errorf(format, args...): the format and its arguments.
Errorf(format, arg) == [kind |-> "Errorf", format |-> format, arg |-> arg]

----------------------------------------------------------------------------
(* types/place.go *)

\* A nil pointer, and the nil interface value.
NilPtr == [isNil |-> TRUE]
NilPlace == [dyn |-> "nil"]

\* The ID values the place objects and the container carry.
PlaceIDs == {<< >>, <<"x">>}
PlaceNames == {"", "n"}

\* A pointer to a place struct of the given Go type; only the fields the
\* Place interface reads are kept.
Ptr(type, pid, name) == [isNil |-> FALSE, type |-> type, ID |-> pid, Name |-> name]

\* The pointers a container field of the given type may hold.
Pointers(type) ==
    {NilPtr} \cup {Ptr(type, << >>, ""), Ptr(type, <<"x">>, "n")}

\* The interface value made of a pointer of the given static type.
Iface(type, ptr) == [dyn |-> type, ptr |-> ptr]

\* Values of EmbeddedType: the five discriminants of the switch, the empty
\* string, the JSON tag of the POI field and an unknown name.
EmbeddedTypes ==
    {"stop_area", "poi", "address", "stop_point", "administrative_region",
     "", "POI", "line"}

PlaceCountainer ==
    [ID : PlaceIDs, Name : PlaceNames, Quality : 0..MaxQuality,
     EmbeddedType : EmbeddedTypes,
     StopArea : Pointers("StopArea"), POI : Pointers("POI"),
     Address : Pointers("Address"), StopPoint : Pointers("StopPoint"),
     AdministrativeRegion : Pointers("AdministrativeRegion")]

\* PlaceCountainer{}: every field at its zero value.
EmptyCountainer ==
    [ID |-> << >>, Name |-> "", Quality |-> 0, EmbeddedType |-> "",
     StopArea |-> NilPtr, POI |-> NilPtr, Address |-> NilPtr,
     StopPoint |-> NilPtr, AdministrativeRegion |-> NilPtr]

\* Place whose POI case tests the JSON tag of the POI field, "POI".
PlacePOITag(p) ==
    IF p = EmptyCountainer THEN [place |-> NilPlace, err |-> NilError]
    ELSE CASE p.EmbeddedType = "stop_area" ->
                [place |-> Iface("StopArea", p.StopArea), err |-> NilError]
           [] p.EmbeddedType = "POI" ->
                [place |-> Iface("POI", p.POI), err |-> NilError]
           [] p.EmbeddedType = "address" ->
                [place |-> Iface("Address", p.Address), err |-> NilError]
           [] p.EmbeddedType = "stop_point" ->
                [place |-> Iface("StopPoint", p.StopPoint), err |-> NilError]
           [] p.EmbeddedType = "administrative_region" ->
                [place |-> Iface("AdministrativeRegion", p.AdministrativeRegion),
                 err |-> NilError]
           [] OTHER ->
                [place |-> NilPlace,
                 err |-> Errorf("No known embedded type indicated (we have \"%s\"), can't return a place !",
                                p.EmbeddedType)]

\* Place without the test for the empty container.
PlaceNoEmptyTest(p) ==
    CASE p.EmbeddedType = "stop_area" ->
            [place |-> Iface("StopArea", p.StopArea), err |-> NilError]
      [] p.EmbeddedType = "poi" ->
            [place |-> Iface("POI", p.POI), err |-> NilError]
      [] p.EmbeddedType = "address" ->
            [place |-> Iface("Address", p.Address), err |-> NilError]
      [] p.EmbeddedType = "stop_point" ->
            [place |-> Iface("StopPoint", p.StopPoint), err |-> NilError]
      [] p.EmbeddedType = "administrative_region" ->
            [place |-> Iface("AdministrativeRegion", p.AdministrativeRegion),
             err |-> NilError]
      [] OTHER ->
            [place |-> NilPlace,
             err |-> Errorf("No known embedded type indicated (we have \"%s\"), can't return a place !",
                            p.EmbeddedType)]

\* Place whose default case falls back on the first populated field.
PlaceGuessing(p) ==
    IF p = EmptyCountainer THEN [place |-> NilPlace, err |-> NilError]
    ELSE CASE p.EmbeddedType = "stop_area" ->
                [place |-> Iface("StopArea", p.StopArea), err |-> NilError]
           [] p.EmbeddedType = "poi" ->
                [place |-> Iface("POI", p.POI), err |-> NilError]
           [] p.EmbeddedType = "address" ->
                [place |-> Iface("Address", p.Address), err |-> NilError]
           [] p.EmbeddedType = "stop_point" ->
                [place |-> Iface("StopPoint", p.StopPoint), err |-> NilError]
           [] p.EmbeddedType = "administrative_region" ->
                [place |-> Iface("AdministrativeRegion", p.AdministrativeRegion),
                 err |-> NilError]
           [] OTHER ->
                IF ~p.StopArea.isNil
                THEN [place |-> Iface("StopArea", p.StopArea), err |-> NilError]
                ELSE [place |-> NilPlace,
                      err |-> Errorf("No known embedded type indicated (we have \"%s\"), can't return a place !",
                                     p.EmbeddedType)]

\* func (pc PlaceCountainer) Place() (Place, error)
Place(p) ==
    IF p = EmptyCountainer THEN [place |-> NilPlace, err |-> NilError]
    ELSE CASE p.EmbeddedType = "stop_area" ->
                [place |-> Iface("StopArea", p.StopArea), err |-> NilError]
           [] p.EmbeddedType = "poi" ->
                [place |-> Iface("POI", p.POI), err |-> NilError]
           [] p.EmbeddedType = "address" ->
                [place |-> Iface("Address", p.Address), err |-> NilError]
           [] p.EmbeddedType = "stop_point" ->
                [place |-> Iface("StopPoint", p.StopPoint), err |-> NilError]
           [] p.EmbeddedType = "administrative_region" ->
                [place |-> Iface("AdministrativeRegion", p.AdministrativeRegion),
                 err |-> NilError]
           [] OTHER ->
                [place |-> NilPlace,
                 err |-> Errorf("No known embedded type indicated (we have \"%s\"), can't return a place !",
                                p.EmbeddedType)]

\* func (sa StopArea) PlaceType() string, and the same method of the other
\* four variants.
StopArea_PlaceType == "stop_area"
\* POI.PlaceType returning the JSON tag of the container's POI field.
POI_PlaceTypeTag == "POI"
POI_PlaceType == "poi"
Address_PlaceType == "address"
StopPoint_PlaceType == "stop_point"
AdministrativeRegion_PlaceType == "administrative_region"

\* The outcome of a method call: the value it returned, or the run-time
\* panic of a call through a nil interface or of a value-receiver method
\* called through a nil pointer.
Returned(v) == [panic |-> FALSE, val |-> v]
Panic == [panic |-> TRUE]

\* The call cannot reach the method's body: the five variants' methods have
\* value receivers, so the pointer in the interface is dereferenced first.
NilReceiver(pl) == pl = NilPlace \/ pl.ptr.isNil

\* Place.PlaceType(), dispatched on the dynamic type of the place.
PlaceType(pl) ==
    IF NilReceiver(pl) THEN Panic
    ELSE Returned(CASE pl.dyn = "StopArea" -> StopArea_PlaceType
                    [] pl.dyn = "POI" -> POI_PlaceType
                    [] pl.dyn = "Address" -> Address_PlaceType
                    [] pl.dyn = "StopPoint" -> StopPoint_PlaceType
                    [] pl.dyn = "AdministrativeRegion" -> AdministrativeRegion_PlaceType)

\* Place.PlaceID() and Place.PlaceName(): each variant returns its own field.
PlaceID(pl) == IF NilReceiver(pl) THEN Panic ELSE Returned(pl.ptr.ID)
PlaceName(pl) == IF NilReceiver(pl) THEN Panic ELSE Returned(pl.ptr.Name)

NotCalled == [called |-> FALSE]

\* A call of pc.Place().
CallPlace ==
    /\ ~placeRet.called
    /\ placeRet' = [called |-> TRUE, place |-> Place(pc).place, err |-> Place(pc).err]
    /\ UNCHANGED <<pc, id, checkRet, typeRet, c, b, cPre, src, jsonRet>>

----------------------------------------------------------------------------
(* The ID type: Check and Type. *)

\* strings.Index(s, ":") counted from 1; 0 when s holds no colon.
RECURSIVE IndexColonFrom(_, _)
IndexColonFrom(s, i) ==
    IF i > Len(s) THEN 0
    ELSE IF s[i] = ":" THEN i
    ELSE IndexColonFrom(s, i + 1)

\* strings.Split(s, ":"): the pieces of s between its colons; a string
\* without a colon, the empty string included, gives the one piece s.
RECURSIVE Split(_)
Split(s) ==
    LET i == IndexColonFrom(s, 1)
    IN  IF i = 0 THEN <<s>>
        ELSE <<SubSeq(s, 1, i - 1)>> \o Split(SubSeq(s, i + 1, Len(s)))

\* var typeNames = map[string]bool{...}
typeNames ==
    [n \in {<<"n","e","t","w","o","r","k">>,
            <<"l","i","n","e">>,
            <<"r","o","u","t","e">>,
            <<"s","t","o","p","_","a","r","e","a">>,
            <<"c","o","m","m","e","r","c","i","a","l","_","m","o","d","e">>,
            <<"p","h","y","s","i","c","a","l","_","m","o","d","e">>,
            <<"c","o","m","p","a","n","y">>,
            <<"a","d","m","i","n">>,
            <<"s","t","o","p","_","p","o","i","n","t">>} |-> TRUE]

\* typeNames[k]: the zero value false for a key the map does not hold.
Lookup(m, k) == IF k \in DOMAIN m THEN m[k] ELSE FALSE

\* Check that accepts every ID.
CheckAcceptsAll(i) == NilError

\* func (id ID) Check() error
Check(i) ==
    IF Len(i) = 0
    THEN Errorf("ID invalid: an empty string \"\" is not a valid ID", "")
    ELSE NilError

\* Type that looks at the text after the last colon.
TypeLastPiece(i) ==
    LET splitted == Split(i)
    IN  IF Len(splitted) = 0 THEN << >>
        ELSE LET possible == splitted[Len(splitted)]
             IN  IF Lookup(typeNames, possible) THEN possible ELSE << >>

\* func (id ID) Type() string
Type(i) ==
    LET splitted == Split(i)
    IN  IF Len(splitted) = 0 THEN << >>
        ELSE LET possible == splitted[1]
             IN  IF Lookup(typeNames, possible) THEN possible ELSE << >>

\* The pieces IDs are built from: the nine type names, a colon and a
\* character that is in no type name.
Pieces == DOMAIN typeNames \cup {<<":">>, <<"x">>}

RECURSIVE Concat(_)
Concat(ps) == IF ps = << >> THEN << >> ELSE Head(ps) \o Concat(Tail(ps))

IDs == {Concat(ps) : ps \in UNION {[1..n -> Pieces] : n \in 0..MaxParts}}

\* A call of id.Check().
CallCheck ==
    /\ ~checkRet.called
    /\ checkRet' = [called |-> TRUE, err |-> Check(id)]
    /\ UNCHANGED <<pc, placeRet, id, typeRet, c, b, cPre, src, jsonRet>>

\* A call of id.Type().
CallType ==
    /\ ~typeRet.called
    /\ typeRet' = [called |-> TRUE, val |-> Type(id)]
    /\ UNCHANGED <<pc, placeRet, id, checkRet, c, b, cPre, src, jsonRet>>

----------------------------------------------------------------------------
(* float64 values and strconv.ParseFloat.                                  *)
(*                                                                         *)
(* A normal float64 is written by its shortest decimal form: a sign, a     *)
(* mantissa m that does not end in 0 and a power of ten e, for m * 10^e.   *)
(* Two decimal texts of at most 15 significant digits in the normal range  *)
(* parse to the same float64 exactly when these forms are equal.  A        *)
(* subnormal float64 is written by its number k of steps of 2^-1074.       *)
(* Zero keeps its sign.  Mantissas are bounded by TLC's integers (below    *)
(* 2^31): a longer one stops the evaluation with an overflow error.        *)

Float(cls, neg, m, e) == [cls |-> cls, neg |-> neg, m |-> m, e |-> e, k |-> << >>]
Zero == Float("num", FALSE, 0, 0)
Inf(neg) == Float("inf", neg, 0, 0)
NaN == Float("nan", FALSE, 0, 0)
\* The subnormal value k * 2^-1074, k in decimal digits, 0 < k < 2^52.
Sub(neg, k) == [cls |-> "sub", neg |-> neg, m |-> 0, e |-> 0, k |-> k]

RECURSIVE Norm(_, _, _)
Norm(neg, m, e) ==
    IF m = 0 THEN Float("num", neg, 0, 0)
    ELSE IF m % 10 = 0 THEN Norm(neg, m \div 10, e + 1)
    ELSE Float("num", neg, m, e)

RECURSIVE Pow10(_)
Pow10(n) == IF n = 0 THEN 1 ELSE 10 * Pow10(n - 1)

RECURSIVE Pow2(_)
Pow2(n) == IF n = 0 THEN 1 ELSE 2 * Pow2(n - 1)

RECURSIVE Pow5(_)
Pow5(n) == IF n = 0 THEN 1 ELSE 5 * Pow5(n - 1)

RECURSIVE NumDigits(_)
NumDigits(n) == IF n < 10 THEN 1 ELSE 1 + NumDigits(n \div 10)

\* The number of bits of n > 0.
RECURSIVE BitLen(_)
BitLen(n) == IF n < 2 THEN 1 ELSE 1 + BitLen(n \div 2)

Digits == <<"0", "1", "2", "3", "4", "5", "6", "7", "8", "9">>
IsDigit(ch) == \E k \in 1..10 : Digits[k] = ch
DigitVal(ch) == (CHOOSE k \in 1..10 : Digits[k] = ch) - 1

\* The decimal digits of n, a natural number.
RECURSIVE Itoa(_)
Itoa(n) == IF n < 10 THEN <<Digits[n + 1]>> ELSE Itoa(n \div 10) \o <<Digits[(n % 10) + 1]>>

Zeros(n) == [k \in 1..n |-> "0"]

\* lower(c) of strconv, for the letters a number may hold.
Lower(ch) ==
    CASE ch = "I" -> "i" [] ch = "N" -> "n" [] ch = "F" -> "f"
      [] ch = "T" -> "t" [] ch = "Y" -> "y" [] ch = "A" -> "a"
      [] ch = "E" -> "e" [] ch = "B" -> "b" [] ch = "C" -> "c"
      [] ch = "D" -> "d" [] ch = "O" -> "o" [] ch = "X" -> "x"
      [] ch = "P" -> "p" [] OTHER -> ch

HexDigits ==
    <<"0", "1", "2", "3", "4", "5", "6", "7", "8", "9", "a", "b", "c", "d", "e", "f">>
IsHexDigit(ch) == \E k \in 1..16 : HexDigits[k] = Lower(ch)
HexDigitVal(ch) == (CHOOSE k \in 1..16 : HexDigits[k] = Lower(ch)) - 1

\* commonPrefixLenIgnoreCase(s, prefix), prefix in lower case.
RECURSIVE CommonPrefixLen(_, _, _)
CommonPrefixLen(s, prefix, i) ==
    IF i > Len(s) \/ i > Len(prefix) THEN i - 1
    ELSE IF Lower(s[i]) = prefix[i] THEN CommonPrefixLen(s, prefix, i + 1)
    ELSE i - 1

\* special(s) of strconv: an optionally signed "inf" or "infinity", or
\* "nan", in any case; n is the number of characters used.
Special(s) ==
    LET signed == Len(s) > 0 /\ s[1] \in {"+", "-"}
        neg == Len(s) > 0 /\ s[1] = "-"
        rest == IF signed THEN Tail(s) ELSE s
        nsign == IF signed THEN 1 ELSE 0
        ninf0 == CommonPrefixLen(rest, <<"i","n","f","i","n","i","t","y">>, 1)
        ninf == IF 3 < ninf0 /\ ninf0 < 8 THEN 3 ELSE ninf0
    IN  IF Len(s) = 0 THEN [ok |-> FALSE, f |-> Zero, n |-> 0]
        ELSE IF ninf = 3 \/ ninf = 8
             THEN [ok |-> TRUE, f |-> Inf(neg), n |-> nsign + ninf]
        ELSE IF ~signed /\ CommonPrefixLen(s, <<"n","a","n">>, 1) = 3
             THEN [ok |-> TRUE, f |-> NaN, n |-> 3]
        ELSE [ok |-> FALSE, f |-> Zero, n |-> 0]

\* underscoreOK(s) of strconv: an underscore stands only between two
\* digits, or between a base prefix (0b, 0o, 0x) and a digit.  saw is the
\* kind of the last character: "^" none, "0" digit, "_" underscore, "!"
\* other.
RECURSIVE UnderscoreScan(_, _, _, _)
UnderscoreScan(s, i, saw, hex) ==
    IF i > Len(s) THEN saw # "_"
    ELSE IF IsDigit(s[i]) \/ (hex /\ IsHexDigit(s[i]))
         THEN UnderscoreScan(s, i + 1, "0", hex)
    ELSE IF s[i] = "_"
         THEN saw = "0" /\ UnderscoreScan(s, i + 1, "_", hex)
    ELSE saw # "_" /\ UnderscoreScan(s, i + 1, "!", hex)

UnderscoreOK(s0) ==
    LET s == IF Len(s0) >= 1 /\ s0[1] \in {"+", "-"} THEN Tail(s0) ELSE s0
        prefix == Len(s) >= 2 /\ s[1] = "0" /\ Lower(s[2]) \in {"b", "o", "x"}
    IN  IF prefix THEN UnderscoreScan(s, 3, "0", Lower(s[2]) = "x")
        ELSE UnderscoreScan(s, 1, "^", FALSE)

\* readFloat skips the underscores of the digit runs and leaves their
\* places to underscoreOK.
StripUnderscores(s) == SelectSeq(s, LAMBDA ch : ch # "_")

\* The index that follows the run of digits of s starting at i.
RECURSIVE DigitsEnd(_, _)
DigitsEnd(s, i) ==
    IF i <= Len(s) /\ IsDigit(s[i]) THEN DigitsEnd(s, i + 1) ELSE i

RECURSIVE HexDigitsEnd(_, _)
HexDigitsEnd(s, i) ==
    IF i <= Len(s) /\ IsHexDigit(s[i]) THEN HexDigitsEnd(s, i + 1) ELSE i

\* The number written by the digits s[i..j-1], 0 for none.
RECURSIVE DigitsVal(_, _, _)
DigitsVal(s, i, j) ==
    IF j <= i THEN 0 ELSE 10 * DigitsVal(s, i, j - 1) + DigitVal(s[j - 1])

RECURSIVE HexDigitsVal(_, _, _)
HexDigitsVal(s, i, j) ==
    IF j <= i THEN 0 ELSE 16 * HexDigitsVal(s, i, j - 1) + HexDigitVal(s[j - 1])

\* The exponent digits s[i..j-1] as readFloat adds them: no further digit
\* counts once the exponent has reached 10000.
RECURSIVE ExpVal(_, _, _)
ExpVal(s, i, j) ==
    IF j <= i THEN 0
    ELSE LET e == ExpVal(s, i, j - 1)
         IN  IF e < 10000 THEN 10 * e + DigitVal(s[j - 1]) ELSE e

NumError(fn, num, err) == [kind |-> "NumError", Func |-> fn, Num |-> num, Err |-> err]

\* 0.ds > 0.ts, for two sequences of decimal digits read as fractions.
RECURSIVE FracGreater(_, _, _)
FracGreater(ds, ts, i) ==
    IF i > Len(ds) /\ i > Len(ts) THEN FALSE
    ELSE LET x == IF i <= Len(ds) THEN DigitVal(ds[i]) ELSE 0
             y == IF i <= Len(ts) THEN DigitVal(ts[i]) ELSE 0
         IN  IF x > y THEN TRUE
             ELSE IF x < y THEN FALSE
             ELSE FracGreater(ds, ts, i + 1)

\* 2^1024 - 2^970, the largest float64 plus half a unit in its last place:
\* the 309 digits of the least number that rounds to an infinity.
OverflowLimit ==
    <<"1", "7", "9", "7", "6", "9", "3", "1", "3", "4", "8", "6", "2", "3", "1", "5", "8", "0">>
    \o <<"7", "9", "3", "7", "2", "8", "9", "7", "1", "4", "0", "5", "3", "0", "3", "4", "1", "5">>
    \o <<"0", "7", "9", "9", "3", "4", "1", "3", "2", "7", "1", "0", "0", "3", "7", "8", "2", "6">>
    \o <<"9", "3", "6", "1", "7", "3", "7", "7", "8", "9", "8", "0", "4", "4", "4", "9", "6", "8">>
    \o <<"2", "9", "2", "7", "6", "4", "7", "5", "0", "9", "4", "6", "6", "4", "9", "0", "1", "7">>
    \o <<"9", "7", "7", "5", "8", "7", "2", "0", "7", "0", "9", "6", "3", "3", "0", "2", "8", "6">>
    \o <<"4", "1", "6", "6", "9", "2", "8", "8", "7", "9", "1", "0", "9", "4", "6", "5", "5", "5">>
    \o <<"5", "4", "7", "8", "5", "1", "9", "4", "0", "4", "0", "2", "6", "3", "0", "6", "5", "7">>
    \o <<"4", "8", "8", "6", "7", "1", "5", "0", "5", "8", "2", "0", "6", "8", "1", "9", "0", "8">>
    \o <<"9", "0", "2", "0", "0", "0", "7", "0", "8", "3", "8", "3", "6", "7", "6", "2", "7", "3">>
    \o <<"8", "5", "4", "8", "4", "5", "8", "1", "7", "7", "1", "1", "5", "3", "1", "7", "6", "4">>
    \o <<"4", "7", "5", "7", "3", "0", "2", "7", "0", "0", "6", "9", "8", "5", "5", "5", "7", "1">>
    \o <<"3", "6", "6", "9", "5", "9", "6", "2", "2", "8", "4", "2", "9", "1", "4", "8", "1", "9">>
    \o <<"8", "6", "0", "8", "3", "4", "9", "3", "6", "4", "7", "5", "2", "9", "2", "7", "1", "9">>
    \o <<"0", "7", "4", "1", "6", "8", "4", "4", "4", "3", "6", "5", "5", "1", "0", "7", "0", "4">>
    \o <<"3", "4", "2", "7", "1", "1", "5", "5", "9", "6", "9", "9", "5", "0", "8", "0", "9", "3">>
    \o <<"0", "4", "2", "8", "8", "0", "1", "7", "7", "9", "0", "4", "1", "7", "4", "4", "9", "7">>
    \o <<"7", "9", "2">>

\* The first digits of 2^-1022 = 0.2225...e-307, the least normal float64;
\* the expansion goes on, so no mantissa of the model equals it.
MinNormal ==
    <<"2", "2", "2", "5", "0", "7", "3", "8", "5", "8", "5", "0", "7", "2", "0", "1", "3", "8",
      "3", "0", "9", "0", "2", "3">>

\* 2^1074, in its 324 digits.
TwoPow1074 ==
    <<"2", "0", "2", "4", "0", "2", "2", "5", "3", "3", "0", "7", "3", "1", "0", "6", "1", "8">>
    \o <<"3", "5", "2", "4", "9", "5", "3", "4", "6", "7", "1", "8", "9", "1", "7", "3", "0", "7">>
    \o <<"0", "4", "9", "5", "5", "6", "6", "4", "9", "7", "6", "4", "1", "4", "2", "1", "1", "8">>
    \o <<"3", "5", "6", "9", "0", "1", "3", "5", "8", "0", "2", "7", "4", "3", "0", "3", "3", "9">>
    \o <<"5", "6", "7", "9", "9", "5", "3", "4", "6", "8", "9", "1", "9", "6", "0", "3", "8", "3">>
    \o <<"7", "0", "1", "4", "3", "7", "1", "2", "4", "4", "9", "5", "1", "8", "7", "0", "7", "7">>
    \o <<"8", "6", "4", "3", "1", "6", "8", "1", "1", "9", "1", "1", "3", "8", "9", "8", "0", "8">>
    \o <<"7", "3", "7", "3", "8", "5", "7", "9", "3", "4", "7", "6", "8", "6", "7", "0", "1", "3">>
    \o <<"3", "9", "9", "9", "4", "0", "7", "3", "8", "5", "0", "9", "9", "2", "1", "5", "1", "7">>
    \o <<"4", "2", "4", "2", "7", "6", "5", "6", "6", "3", "6", "1", "3", "6", "4", "4", "6", "6">>
    \o <<"9", "0", "7", "7", "4", "2", "0", "9", "3", "2", "1", "6", "3", "4", "1", "2", "3", "9">>
    \o <<"7", "6", "7", "6", "7", "8", "4", "7", "2", "7", "4", "5", "0", "6", "8", "5", "6", "2">>
    \o <<"0", "0", "7", "4", "8", "3", "4", "2", "4", "6", "9", "2", "6", "9", "8", "6", "1", "8">>
    \o <<"1", "0", "3", "3", "5", "5", "6", "4", "9", "1", "5", "9", "5", "5", "6", "3", "4", "0">>
    \o <<"8", "1", "0", "0", "5", "6", "5", "1", "2", "3", "5", "8", "7", "6", "9", "5", "5", "2">>
    \o <<"3", "3", "3", "4", "1", "4", "6", "1", "5", "2", "3", "0", "5", "0", "2", "5", "3", "2">>
    \o <<"1", "8", "6", "3", "2", "7", "5", "0", "8", "6", "4", "6", "0", "0", "6", "2", "6", "3">>
    \o <<"3", "0", "7", "7", "0", "7", "7", "4", "1", "0", "9", "3", "4", "9", "4", "7", "8", "4">>

\* m * 10^e, m not ending in 0, is at least OverflowLimit.
Overflows(m, e) ==
    LET d == NumDigits(m)
    IN  m # 0 /\ (d + e > 309
                  \/ (d + e = 309 /\ ~FracGreater(OverflowLimit, Itoa(m), 1)))

\* m * 10^e is below the least normal float64.
BelowNormal(m, e) ==
    LET d == NumDigits(m)
    IN  m # 0 /\ (d + e < -307
                  \/ (d + e = -307 /\ ~FracGreater(Itoa(m), MinNormal, 1)))

\* ds + n, ds a sequence of decimal digits: the low Len(ds) digits of the
\* sum and the carry above them.
RECURSIVE AddFixed(_, _)
AddFixed(ds, n) ==
    IF n = 0 \/ Len(ds) = 0 THEN [digits |-> ds, carry |-> n]
    ELSE LET t == DigitVal(ds[Len(ds)]) + n
             r == AddFixed(SubSeq(ds, 1, Len(ds) - 1), t \div 10)
         IN  [digits |-> r.digits \o <<Digits[(t % 10) + 1]>>, carry |-> r.carry]

\* ds * q: the low Len(ds) digits of the product and the carry above them.
\* The sequence is halved at each step and the carry of the low half is
\* added to the high half.
RECURSIVE MulFixed(_, _)
MulFixed(ds, q) ==
    IF Len(ds) = 0 THEN [digits |-> << >>, carry |-> 0]
    ELSE IF Len(ds) = 1
         THEN LET t == DigitVal(ds[1]) * q
              IN  [digits |-> <<Digits[(t % 10) + 1]>>, carry |-> t \div 10]
    ELSE LET h == Len(ds) \div 2
             lo == MulFixed(SubSeq(ds, h + 1, Len(ds)), q)
             hi == MulFixed(SubSeq(ds, 1, h), q)
             sum == AddFixed(hi.digits, lo.carry)
         IN  [digits |-> sum.digits \o lo.digits, carry |-> hi.carry + sum.carry]

\* The digits of ds * q.
MulDigits(ds, q) ==
    LET r == MulFixed(ds, q)
    IN  (IF r.carry = 0 THEN << >> ELSE Itoa(r.carry)) \o r.digits

\* The digits of ds + 1.
RECURSIVE IncDigits(_)
IncDigits(ds) ==
    IF ds = << >> THEN <<"1">>
    ELSE IF ds[Len(ds)] = "9" THEN IncDigits(SubSeq(ds, 1, Len(ds) - 1)) \o <<"0">>
    ELSE SubSeq(ds, 1, Len(ds) - 1) \o <<Digits[DigitVal(ds[Len(ds)]) + 2]>>

\* ds without its leading zeros; "0" for zero.
RECURSIVE TrimZeros(_)
TrimZeros(ds) ==
    IF ds = << >> THEN <<"0">>
    ELSE IF ds[1] = "0" THEN TrimZeros(Tail(ds))
    ELSE ds

\* whole + 0.frac rounded to the nearest integer, to the even one of two
\* equally near; frac holds at least one digit.
RoundHalfEven(whole, frac) ==
    LET first == DigitVal(frac[1])
        restZero == \A i \in 2..Len(frac) : frac[i] = "0"
        odd == DigitVal(whole[Len(whole)]) % 2 = 1
    IN  TrimZeros(IF first > 5 \/ (first = 5 /\ (~restZero \/ odd))
                  THEN IncDigits(whole) ELSE whole)

\* ds with zeros in front, for more than n digits in all.
PadDigits(ds, n) == IF Len(ds) > n THEN ds ELSE Zeros(n + 1 - Len(ds)) \o ds

\* ds / 10^n rounded, ds of more than n digits.
RoundCut(ds, n) ==
    RoundHalfEven(SubSeq(ds, 1, Len(ds) - n), SubSeq(ds, Len(ds) - n + 1, Len(ds)))

\* The subnormal nearest to m * 10^e, e < 0: m * 10^e / 2^-1074 rounded to
\* the nearest integer, to the even one of two equally near.
SubSteps(m, e) == RoundCut(PadDigits(MulDigits(TwoPow1074, m), 0 - e), 0 - e)

\* The float64 of k steps of 2^-1074: a zero of the text's sign for none.
Subnormal(neg, k) == IF k = <<"0">> THEN Float("num", neg, 0, 0) ELSE Sub(neg, k)

\* The float64 of the decimal v and whether it is out of range.
DecimalRange(neg, v) ==
    IF Overflows(v.m, v.e) THEN [f |-> Inf(neg), range |-> TRUE]
    ELSE IF BelowNormal(v.m, v.e)
         THEN [f |-> Subnormal(neg, SubSteps(v.m, v.e)), range |-> FALSE]
    ELSE [f |-> v, range |-> FALSE]

\* The float64 of the decimal m * 10^e and whether it is out of range.
DecimalValue(neg, m, e) == DecimalRange(neg, Norm(neg, m, e))

\* The digits of ds * 2^n, twenty doublings at a time.
RECURSIVE ShiftDigits(_, _)
ShiftDigits(ds, n) ==
    IF n <= 20 THEN MulDigits(ds, Pow2(n))
    ELSE ShiftDigits(MulDigits(ds, Pow2(20)), n - 20)

\* mant / 2^sh, sh > 0, mant of bl bits, rounded to the nearest integer, to
\* the even one of two equally near.
RoundShift(mant, sh, bl) ==
    IF sh > bl THEN 0
    ELSE IF sh = bl THEN (IF mant = Pow2(bl - 1) THEN 0 ELSE 1)
    ELSE IF 2 * (mant % Pow2(sh)) > Pow2(sh)
            \/ (2 * (mant % Pow2(sh)) = Pow2(sh) /\ (mant \div Pow2(sh)) % 2 = 1)
         THEN (mant \div Pow2(sh)) + 1
    ELSE mant \div Pow2(sh)

\* The steps of 2^-1074 nearest to mant * 2^q.
HexSteps(mant, q) ==
    IF q + 1074 >= 0 THEN ShiftDigits(Itoa(mant), q + 1074)
    ELSE Itoa(RoundShift(mant, 0 - (q + 1074), BitLen(mant)))

\* The float64 of mant * 2^q, mant of bl bits and below 2^31, and whether
\* it is out of range (atofHex).  A normal value is kept by its decimal
\* form, which TLC's integers must hold.
HexRange(neg, mant, q, bl) ==
    IF mant = 0 THEN [f |-> Float("num", neg, 0, 0), range |-> FALSE]
    ELSE IF bl + q >= 1025 THEN [f |-> Inf(neg), range |-> TRUE]
    ELSE IF bl + q <= -1022
         THEN [f |-> Subnormal(neg, HexSteps(mant, q)), range |-> FALSE]
    ELSE IF q >= 0 THEN [f |-> Norm(neg, mant * Pow2(q), 0), range |-> FALSE]
    ELSE [f |-> Norm(neg, mant * Pow5(0 - q), q), range |-> FALSE]

HexValue(neg, mant, q) == HexRange(neg, mant, q, BitLen(mant))

\* readFloat and the conversion that follows it, on a text without
\* underscores: a sign, then decimal digits with an optional point and an
\* optional exponent e, or 0x, hexadecimal digits with an optional point and
\* the exponent p of a power of two.  The steps follow readFloat through
\* the text; the result holds ok: the whole text is a number.

\* The index that follows the run of digits of the base starting at i.
RunEnd(s, i, hex) == IF hex THEN HexDigitsEnd(s, i) ELSE DigitsEnd(s, i)

\* The number written by the digits s[i..j-1] of the base.
RunVal(s, i, j, hex) == IF hex THEN HexDigitsVal(s, i, j) ELSE DigitsVal(s, i, j)

\* The text is a number of mantissa mant with nFrac digits after the point
\* and the exponent ex.
ReadValue(neg, hex, mant, nFrac, ex) ==
    IF hex THEN HexValue(neg, mant, ex - 4 * nFrac)
    ELSE DecimalValue(neg, mant, ex - nFrac)

ReadResult(neg, v) == [ok |-> TRUE, neg |-> neg, f |-> v.f, range |-> v.range]

ReadFailure(neg) == [ok |-> FALSE, neg |-> neg, f |-> Zero, range |-> FALSE]

\* The text ends with the mantissa (j1 = j2 = 0) or with the exponent's
\* digits s[j1..j2-1], which are negated when eneg.
ReadEnd(s, neg, hex, mant, nFrac, eneg, j1, j2, n) ==
    IF n # Len(s) + 1 THEN ReadFailure(neg)
    ELSE ReadResult(neg, ReadValue(neg, hex, mant, nFrac,
                        IF eneg THEN 0 - ExpVal(s, j1, j2) ELSE ExpVal(s, j1, j2)))

\* An exponent holds at least one digit.
ReadExpDigits(s, neg, hex, mant, nFrac, eneg, j1, j2) ==
    IF j2 = j1 THEN ReadFailure(neg)
    ELSE ReadEnd(s, neg, hex, mant, nFrac, eneg, j1, j2, j2)

\* The exponent's digits start at j1.
ReadExpSign(s, neg, hex, mant, nFrac, eneg, j1) ==
    ReadExpDigits(s, neg, hex, mant, nFrac, eneg, j1, DigitsEnd(s, j1))

\* The exponent's mark is s[i2]; esigned: a sign follows it.
ReadExpMark(s, neg, hex, mant, nFrac, i2, esigned) ==
    ReadExpSign(s, neg, hex, mant, nFrac, esigned /\ s[i2 + 1] = "-",
                IF esigned THEN i2 + 2 ELSE i2 + 1)

\* The mantissa ends before i2: an exponent follows, mandatory for a
\* hexadecimal text, or the text ends.
ReadExp(s, neg, hex, mant, nFrac, i2) ==
    IF i2 <= Len(s) /\ Lower(s[i2]) = (IF hex THEN "p" ELSE "e")
    THEN ReadExpMark(s, neg, hex, mant, nFrac, i2,
                     i2 + 1 <= Len(s) /\ s[i2 + 1] \in {"+", "-"})
    ELSE IF hex THEN ReadFailure(neg)
    ELSE ReadEnd(s, neg, hex, mant, nFrac, FALSE, 0, 0, i2)

\* The digits before the point are s[i0..i1-1], those after it
\* s[i1+1..i2-1]; without a point i2 = i1.
ReadMantissa(s, neg, hex, i0, i1, i2, nFrac) ==
    IF (i1 - i0) + nFrac = 0 THEN ReadFailure(neg)
    ELSE ReadExp(s, neg, hex,
                 RunVal(s, i0, i1, hex) * (IF hex THEN Pow2(4 * nFrac) ELSE Pow10(nFrac))
                     + (IF i2 > i1 THEN RunVal(s, i1 + 1, i2, hex) ELSE 0),
                 nFrac, i2)

ReadFraction(s, neg, hex, i0, i1, i2) ==
    ReadMantissa(s, neg, hex, i0, i1, i2, IF i2 > i1 THEN i2 - i1 - 1 ELSE 0)

\* The digits before the point end before i1.
ReadPoint(s, neg, hex, i0, i1) ==
    ReadFraction(s, neg, hex, i0, i1,
                 IF i1 <= Len(s) /\ s[i1] = "." THEN RunEnd(s, i1 + 1, hex) ELSE i1)

\* The digits start at i0.
ReadDigits(s, neg, hex, i0) == ReadPoint(s, neg, hex, i0, RunEnd(s, i0, hex))

\* The text after the sign starts at i; hex: with the prefix 0x.
ReadPrefix(s, neg, hex, i) == ReadDigits(s, neg, hex, IF hex THEN i + 2 ELSE i)

ReadBase(s, neg, i) ==
    ReadPrefix(s, neg, i + 2 <= Len(s) /\ s[i] = "0" /\ Lower(s[i + 1]) = "x", i)

ReadFloat(s) ==
    ReadBase(s, Len(s) > 0 /\ s[1] = "-",
             IF Len(s) > 0 /\ s[1] \in {"+", "-"} THEN 2 ELSE 1)

\* The result of ParseFloat for a text that starts as a special value.
ParseSpecial(s, sp) ==
    IF sp.n = Len(s) THEN [f |-> sp.f, err |-> NilError]
    ELSE [f |-> Zero, err |-> NumError("ParseFloat", s, "ErrSyntax")]

\* The result of ParseFloat for another text: t is s without underscores
\* and r what readFloat made of it.
ParseNumber(s, t, r) ==
    IF ~r.ok \/ (t # s /\ ~UnderscoreOK(s))
    THEN [f |-> Zero, err |-> NumError("ParseFloat", s, "ErrSyntax")]
    ELSE IF r.range THEN [f |-> r.f, err |-> NumError("ParseFloat", s, "ErrRange")]
    ELSE [f |-> r.f, err |-> NilError]

\* strconv.ParseFloat(s, 64): the value and the error.  A syntax error
\* gives 0; a text out of range gives an infinity and ErrRange; a text
\* that rounds to zero gives a zero and no error.
ParseFloat(s) ==
    IF Special(s).ok THEN ParseSpecial(s, Special(s))
    ELSE ParseNumber(s, StripUnderscores(s), ReadFloat(StripUnderscores(s)))

----------------------------------------------------------------------------
(* Encoding a Coordinates value in the API's form. *)

\* strconv.FormatFloat(f, 'f', -1, 64) of a finite value: the shortest
\* decimal text without an exponent.
FormatFloat(f) ==
    LET ds == Itoa(f.m)
        d == Len(ds)
        body == IF f.e >= 0 THEN ds \o Zeros(f.e)
                ELSE IF d > 0 - f.e
                     THEN SubSeq(ds, 1, d + f.e) \o <<".">> \o SubSeq(ds, d + f.e + 1, d)
                ELSE <<"0", ".">> \o Zeros(0 - f.e - d) \o ds
    IN  (IF f.neg THEN <<"-">> ELSE << >>) \o body

\* A member of a JSON object: absent, null, a string, or a value of
\* another JSON type (a number, a boolean, an array, an object).
Absent == [kind |-> "absent", s |-> << >>]
JNull == [kind |-> "null", s |-> << >>]
JOther == [kind |-> "other", s |-> << >>]
JString(s) == [kind |-> "string", s |-> s]

\* A JSON document: text that is not JSON, the literal null, a value that
\* is not an object, or an object of which the "lat" and "lon" members are
\* kept.
Doc(kind, lat, lon) == [kind |-> kind, lat |-> lat, lon |-> lon]
NoDoc == Doc("none", Absent, Absent)

\* The API's encoding of a Coordinates value: {"lat": "<text>", "lon": "<text>"}.
MarshalCoordinates(v) ==
    Doc("object", JString(FormatFloat(v.Latitude)), JString(FormatFloat(v.Longitude)))

----------------------------------------------------------------------------
(* types/coordinates_json.go *)

\* json.Unmarshal(b, data) into struct{Latitude string `json:"lat"`;
\* Longitude string `json:"lon"`}: null and absent members leave a field
\* empty; a member of another type than string is an UnmarshalTypeError.
json_Unmarshal(doc) ==
    LET empty == [Latitude |-> << >>, Longitude |-> << >>]
        field(m) == IF m.kind = "string" THEN m.s ELSE << >>
    IN  CASE doc.kind = "invalid" ->
                [data |-> empty, err |-> [kind |-> "SyntaxError"]]
          [] doc.kind = "other" ->
                [data |-> empty, err |-> [kind |-> "UnmarshalTypeError"]]
          [] doc.kind = "null" ->
                [data |-> empty, err |-> NilError]
          [] doc.kind = "object" ->
                [data |-> [Latitude |-> field(doc.lat), Longitude |-> field(doc.lon)],
                 err |-> IF doc.lat.kind = "other" \/ doc.lon.kind = "other"
                         THEN [kind |-> "UnmarshalTypeError"]
                         ELSE NilError]

\* errors.Wrap(err, message)
Wrap(err, message) == [kind |-> "Wrap", message |-> message, cause |-> err]

\* unmarshalErrorMaker{Type, b}.err(err, Field, Key, Value, Message): the
\* error that names the Go field and the JSON key that failed.
unmarshalErrorMaker_err(type, err, fieldName, key, value, message) ==
    [kind |-> "UnmarshalError", Type |-> type, Field |-> fieldName, Key |-> key,
     Value |-> value, Message |-> message, cause |-> err]

\* UnmarshalJSON that parses "lat" into Longitude and "lon" into Latitude.
UnmarshalJSONSwapped(c0, doc) ==
    LET u == json_Unmarshal(doc)
        lon == ParseFloat(u.data.Latitude)
        c1 == [c0 EXCEPT !.Longitude = lon.f]
        lat == ParseFloat(u.data.Longitude)
        c2 == [c1 EXCEPT !.Latitude = lat.f]
    IN  IF u.err # NilError
        THEN [c |-> c0, err |-> Wrap(u.err, "Error while unmarshalling journey")]
        ELSE IF lon.err # NilError
        THEN [c |-> c1,
              err |-> unmarshalErrorMaker_err("Coordinates", lon.err, "Longitude", "lon",
                          u.data.Latitude, "error in strconv.ParseFloat")]
        ELSE IF lat.err # NilError
        THEN [c |-> c2,
              err |-> unmarshalErrorMaker_err("Coordinates", lat.err, "Latitude", "lat",
                          u.data.Longitude, "error in strconv.ParseFloat")]
        ELSE [c |-> c2, err |-> NilError]

\* UnmarshalJSON that parses the latitude first.
UnmarshalJSONLatFirst(c0, doc) ==
    LET u == json_Unmarshal(doc)
        lat == ParseFloat(u.data.Latitude)
        c1 == [c0 EXCEPT !.Latitude = lat.f]
        lon == ParseFloat(u.data.Longitude)
        c2 == [c1 EXCEPT !.Longitude = lon.f]
    IN  IF u.err # NilError
        THEN [c |-> c0, err |-> Wrap(u.err, "Error while unmarshalling journey")]
        ELSE IF lat.err # NilError
        THEN [c |-> c1,
              err |-> unmarshalErrorMaker_err("Coordinates", lat.err, "Latitude", "lat",
                          u.data.Latitude, "error in strconv.ParseFloat")]
        ELSE IF lon.err # NilError
        THEN [c |-> c2,
              err |-> unmarshalErrorMaker_err("Coordinates", lon.err, "Longitude", "lon",
                          u.data.Longitude, "error in strconv.ParseFloat")]
        ELSE [c |-> c2, err |-> NilError]

\* UnmarshalJSON that stores the two values only once both have parsed.
UnmarshalJSONAtomic(c0, doc) ==
    LET u == json_Unmarshal(doc)
        lon == ParseFloat(u.data.Longitude)
        lat == ParseFloat(u.data.Latitude)
    IN  IF u.err # NilError
        THEN [c |-> c0, err |-> Wrap(u.err, "Error while unmarshalling journey")]
        ELSE IF lon.err # NilError
        THEN [c |-> c0,
              err |-> unmarshalErrorMaker_err("Coordinates", lon.err, "Longitude", "lon",
                          u.data.Longitude, "error in strconv.ParseFloat")]
        ELSE IF lat.err # NilError
        THEN [c |-> c0,
              err |-> unmarshalErrorMaker_err("Coordinates", lat.err, "Latitude", "lat",
                          u.data.Latitude, "error in strconv.ParseFloat")]
        ELSE [c |-> [Latitude |-> lat.f, Longitude |-> lon.f], err |-> NilError]

\* func (c *Coordinates) UnmarshalJSON(b []byte) error: the receiver after
\* the call and the error returned.  Each ParseFloat result is assigned to
\* the receiver's field before its error is looked at.
UnmarshalJSON(c0, doc) ==
    LET u == json_Unmarshal(doc)
        lon == ParseFloat(u.data.Longitude)
        c1 == [c0 EXCEPT !.Longitude = lon.f]
        lat == ParseFloat(u.data.Latitude)
        c2 == [c1 EXCEPT !.Latitude = lat.f]
    IN  IF u.err # NilError
        THEN [c |-> c0, err |-> Wrap(u.err, "Error while unmarshalling journey")]
        ELSE IF lon.err # NilError
        THEN [c |-> c1,
              err |-> unmarshalErrorMaker_err("Coordinates", lon.err, "Longitude", "lon",
                          u.data.Longitude, "error in strconv.ParseFloat")]
        ELSE IF lat.err # NilError
        THEN [c |-> c2,
              err |-> unmarshalErrorMaker_err("Coordinates", lat.err, "Latitude", "lat",
                          u.data.Latitude, "error in strconv.ParseFloat")]
        ELSE [c |-> c2, err |-> NilError]

\* The characters the "lat" and "lon" texts are written with.
Alphabet == {"0", "1", "-", "+", ".", "e"}

Texts(n) == UNION {[1..k -> Alphabet] : k \in 0..n}

\* Texts beyond the alphabet: the special values, a decimal comma, values
\* at the two ends of the float64 range and among the subnormals, digits
\* separated by underscores, hexadecimal texts.
Specials ==
    {<<"N","a","N">>, <<"i","n","f">>, <<"-","I","n","f">>,
     <<"+","I","n","f","i","n","i","t","y">>, <<"i","n","f","i">>,
     <<"-","n","a","n">>, <<"1",",","5">>, <<"4","8",".","8","5">>,
     <<"1","e","3","0","8">>, <<"-","2","E","3","0","8">>,
     <<"1",".","8","e","3","0","8">>, <<"1","e","3","0","9">>,
     <<"-","1","e","-","4","0","0">>,
     <<"1",".","7","9","7","6","9","3","1","4","e","3","0","8">>,
     <<"1",".","7","9","7","6","9","3","1","e","3","0","8">>,
     <<"1","e","-","3","2","4">>, <<"2",".","4","e","-","3","2","4">>,
     <<"3","e","-","3","2","4">>, <<"4","e","-","3","2","4">>,
     <<"5","e","-","3","2","4">>, <<"-","8","e","-","3","2","4">>,
     <<"2","e","-","3","0","8">>, <<"1","_","0">>, <<"1","_","_","0">>,
     <<"_","1">>, <<"0","x","1","p","-","2">>,
     <<"0","X","1",".","8","P","1">>, <<"0","x","1">>,
     <<"0","x","1","p","-","1","0","7","4">>,
     <<"-","0","x","1","p","1","0","2","4">>}

\* The members a document may hold under "lat" and "lon".
Members ==
    {<<la, lo>> \in {Absent, JNull, JOther} \X {Absent, JNull, JOther} : TRUE}
    \cup {<<JString(s), lo>> : s \in Texts(MaxText) \cup Specials, lo \in {Absent, JNull, JOther}}
    \cup {<<la, JString(s)>> : s \in Texts(MaxText) \cup Specials, la \in {Absent, JNull, JOther}}
    \cup UNION {{<<JString(s), JString(t)>> : t \in Texts(MaxText - Len(s))} : s \in Texts(MaxText)}
    \cup {<<JString(s), JString(t)>> : s \in Specials, t \in Specials \cup Texts(1)}
    \cup {<<JString(t), JString(s)>> : s \in Specials, t \in Texts(1)}

Docs ==
    {Doc("invalid", Absent, Absent), Doc("null", Absent, Absent),
     Doc("other", Absent, Absent)}
    \cup {Doc("object", m[1], m[2]) : m \in Members}

\* The finite values that are encoded.
Values ==
    {Norm(neg, m, e) : neg \in BOOLEAN, m \in 0..MaxMant, e \in (0 - MaxExp)..MaxExp}

Coordinates == [Latitude : Values, Longitude : Values]

\* The receivers UnmarshalJSON is called on: the zero value and one that
\* holds 1.5 and -20.
Receivers ==
    {[Latitude |-> Zero, Longitude |-> Zero],
     [Latitude |-> Float("num", FALSE, 15, -1), Longitude |-> Float("num", TRUE, 2, 1)]}

NoSrc == [set |-> FALSE]

\* A Coordinates value is encoded into the document.
Encode ==
    /\ b = NoDoc
    /\ \E v \in Coordinates :
          /\ b' = MarshalCoordinates(v)
          /\ src' = [set |-> TRUE, v |-> v]
    /\ UNCHANGED <<pc, placeRet, id, checkRet, typeRet, c, cPre, jsonRet>>

\* A call of c.UnmarshalJSON(b).
Decode ==
    /\ b # NoDoc
    /\ ~jsonRet.called
    /\ cPre' = c
    /\ c' = UnmarshalJSON(c, b).c
    /\ jsonRet' = [called |-> TRUE, err |-> UnmarshalJSON(c, b).err]
    /\ UNCHANGED <<pc, placeRet, id, checkRet, typeRet, b, src>>

----------------------------------------------------------------------------
(* The three specifications: each exercises one part of the package and  *)
(* leaves the state of the other two at rest.                             *)

\* The containers Place() is called on; the ID and the Coordinates parts
\* stay at their zero values.
InitPlace ==
    /\ pc \in PlaceCountainer
    /\ placeRet = NotCalled
    /\ id = << >> /\ checkRet = NotCalled /\ typeRet = NotCalled
    /\ c = [Latitude |-> Zero, Longitude |-> Zero] /\ cPre = c
    /\ b = NoDoc /\ src = NoSrc /\ jsonRet = NotCalled

NextPlace == CallPlace
SpecPlace == InitPlace /\ [][NextPlace]_vars

\* The IDs Check() and Type() are called on.
InitID ==
    /\ id \in IDs
    /\ checkRet = NotCalled /\ typeRet = NotCalled
    /\ pc = EmptyCountainer /\ placeRet = NotCalled
    /\ c = [Latitude |-> Zero, Longitude |-> Zero] /\ cPre = c
    /\ b = NoDoc /\ src = NoSrc /\ jsonRet = NotCalled

NextID == CallCheck \/ CallType
SpecID == InitID /\ [][NextID]_vars

\* The receivers and the documents of UnmarshalJSON; NoDoc is the document
\* still to be encoded.
InitCoord ==
    /\ c \in Receivers
    /\ cPre = c
    /\ b \in Docs \cup {NoDoc}
    /\ src = NoSrc
    /\ jsonRet = NotCalled
    /\ pc = EmptyCountainer /\ placeRet = NotCalled
    /\ id = << >> /\ checkRet = NotCalled /\ typeRet = NotCalled

NextCoord == Encode \/ Decode
SpecCoord == InitCoord /\ [][NextCoord]_vars

----------------------------------------------------------------------------
(* Properties of PlaceCountainer.Place, checked under SpecPlace. *)

\* The five discriminants and, for each, the container field it selects
\* and the Go type of that field.
KnownEmbeddedTypes ==
    {"stop_area", "poi", "address", "stop_point", "administrative_region"}

MatchingField(p) ==
    CASE p.EmbeddedType = "stop_area" -> p.StopArea
      [] p.EmbeddedType = "poi" -> p.POI
      [] p.EmbeddedType = "address" -> p.Address
      [] p.EmbeddedType = "stop_point" -> p.StopPoint
      [] p.EmbeddedType = "administrative_region" -> p.AdministrativeRegion

\* Every field of the container is at its zero value.
ZeroValued(p) ==
    /\ p.ID = << >> /\ p.Name = "" /\ p.Quality = 0 /\ p.EmbeddedType = ""
    /\ p.StopArea.isNil /\ p.POI.isNil /\ p.Address.isNil
    /\ p.StopPoint.isNil /\ p.AdministrativeRegion.isNil

\* None of the five place fields is populated.
NoPlaceField(p) ==
    /\ p.StopArea.isNil /\ p.POI.isNil /\ p.Address.isNil
    /\ p.StopPoint.isNil /\ p.AdministrativeRegion.isNil

\* C1: Place() on a zero-valued container returns a nil Place and a nil
\* error.
C1_ZeroContainerNilNil ==
    (placeRet.called /\ ZeroValued(pc))
        => (placeRet.place = NilPlace /\ placeRet.err = NilError)

C1_Witness ==
    placeRet.called /\ ZeroValued(pc) /\ placeRet.place = NilPlace

\* C2: with a known EmbeddedType and the matching field populated, Place()
\* returns that field's pointer and a nil error, whatever the other fields
\* hold.
C2_KnownTypeReturnsField ==
    (/\ placeRet.called
     /\ pc.EmbeddedType \in KnownEmbeddedTypes
     /\ ~MatchingField(pc).isNil)
        => (/\ placeRet.err = NilError
            /\ placeRet.place # NilPlace
            /\ placeRet.place.ptr = MatchingField(pc))

\* A stop_area container whose POI and Address are populated as well.
C2_Witness ==
    /\ placeRet.called
    /\ pc.EmbeddedType = "stop_area"
    /\ ~pc.StopArea.isNil /\ ~pc.POI.isNil /\ ~pc.Address.isNil
    /\ pc.Quality > 0
    /\ placeRet.place = Iface("StopArea", pc.StopArea)

\* C3: a container that is not zero-valued and whose EmbeddedType is none
\* of the five discriminants gives an error and a nil Place, also when
\* place fields are populated.
C3_UnknownTypeErrors ==
    (/\ placeRet.called
     /\ ~ZeroValued(pc)
     /\ pc.EmbeddedType \notin KnownEmbeddedTypes)
        => (placeRet.err # NilError /\ placeRet.place = NilPlace)

\* The empty EmbeddedType with a populated StopArea.
C3_Witness ==
    /\ placeRet.called
    /\ pc.EmbeddedType = ""
    /\ ~pc.StopArea.isNil
    /\ placeRet.err # NilError

\* C8: a container that is not zero-valued and has none of its five place
\* fields populated gives an error and a nil Place, also when its
\* EmbeddedType is one of the five discriminants.
C8_NoPlaceFieldErrors ==
    (/\ placeRet.called
     /\ ~ZeroValued(pc)
     /\ NoPlaceField(pc))
        => (placeRet.err # NilError /\ placeRet.place = NilPlace)

\* C9: the Place returned for a known EmbeddedType with its field populated
\* reports that EmbeddedType as its PlaceType, and the ID and the Name of
\* the variant as its PlaceID and PlaceName.
C9_VariantAgreesWithDiscriminant ==
    (/\ placeRet.called
     /\ pc.EmbeddedType \in KnownEmbeddedTypes
     /\ ~MatchingField(pc).isNil)
        => (/\ PlaceType(placeRet.place) = Returned(pc.EmbeddedType)
            /\ PlaceID(placeRet.place) = Returned(MatchingField(pc).ID)
            /\ PlaceName(placeRet.place) = Returned(MatchingField(pc).Name))

\* A poi container whose POI's ID differs from the container's.
C9_Witness ==
    /\ placeRet.called
    /\ pc.EmbeddedType = "poi"
    /\ ~pc.POI.isNil
    /\ pc.POI.ID # pc.ID
    /\ PlaceType(placeRet.place) = Returned("poi")

----------------------------------------------------------------------------
(* Properties of ID.Check and ID.Type, checked under SpecID. *)

\* The nine type names, as the documentation of Type lists them.
NineTypeNames ==
    {<<"n","e","t","w","o","r","k">>, <<"l","i","n","e">>, <<"r","o","u","t","e">>,
     <<"s","t","o","p","_","a","r","e","a">>,
     <<"c","o","m","m","e","r","c","i","a","l","_","m","o","d","e">>,
     <<"p","h","y","s","i","c","a","l","_","m","o","d","e">>,
     <<"c","o","m","p","a","n","y">>, <<"a","d","m","i","n">>,
     <<"s","t","o","p","_","p","o","i","n","t">>}

\* The text before the first colon of s; s itself when it has none.
BeforeFirstColon(s) ==
    LET colons == {k \in 1..Len(s) : s[k] = ":"}
        first == IF colons = {} THEN Len(s) + 1
                 ELSE CHOOSE k \in colons : \A j \in colons : k <= j
    IN  SubSeq(s, 1, first - 1)

\* C4: Check() returns an error exactly for the empty ID.
C4_CheckRejectsOnlyEmpty ==
    checkRet.called => ((checkRet.err # NilError) <=> (id = << >>))

C4_Witness ==
    checkRet.called /\ id = << >> /\ checkRet.err # NilError

\* C5: Type() returns the text before the first colon when that text is
\* one of the nine type names, and the empty string otherwise.
C5_TypeIsKnownPrefixOrEmpty ==
    typeRet.called =>
        /\ typeRet.val = (IF BeforeFirstColon(id) \in NineTypeNames
                          THEN BeforeFirstColon(id) ELSE << >>)
        /\ typeRet.val = << >> \/ typeRet.val \in NineTypeNames

\* "admin:" followed by more text, some of it another type name.
C5_Witness ==
    /\ typeRet.called
    /\ typeRet.val = <<"a","d","m","i","n">>
    /\ Len(id) > 6
    /\ id[6] = ":"

----------------------------------------------------------------------------
(* Properties of Coordinates.UnmarshalJSON, checked under SpecCoord. *)

\* The text UnmarshalJSON finds under a member: empty when the member is
\* absent.
TextOf(m) == IF m.kind = "string" THEN m.s ELSE << >>

\* The document is JSON that decodes into the two string fields.
Decodable(doc) ==
    /\ doc.kind \in {"object", "null"}
    /\ doc.lat.kind # "other"
    /\ doc.lon.kind # "other"

Parses(s) == ParseFloat(s).err = NilError

\* C6: decoding the encoding of a Coordinates value gives no error and the
\* original Latitude and Longitude, each in its own field.
C6_RoundTrip ==
    (jsonRet.called /\ src.set)
        => (/\ jsonRet.err = NilError
            /\ c.Latitude = src.v.Latitude
            /\ c.Longitude = src.v.Longitude)

\* A value with a fraction and a negative one, decoded into a receiver
\* that held other values.
C6_Witness ==
    /\ jsonRet.called /\ src.set
    /\ src.v.Latitude.e < 0
    /\ src.v.Longitude.neg
    /\ src.v.Latitude # src.v.Longitude
    /\ c = src.v
    /\ cPre # c

\* C7: UnmarshalJSON returns an error exactly when the document does not
\* decode or the "lon" or the "lat" text does not parse; a parse error
\* names the field that failed, Longitude first.
C7_ErrorExactlyAndNamed ==
    jsonRet.called =>
        LET lonBad == ~Parses(TextOf(b.lon))
            latBad == ~Parses(TextOf(b.lat))
        IN  /\ (jsonRet.err # NilError) <=> (~Decodable(b) \/ lonBad \/ latBad)
            /\ ~Decodable(b) => jsonRet.err.kind = "Wrap"
            /\ (Decodable(b) /\ lonBad) =>
                  /\ jsonRet.err.kind = "UnmarshalError"
                  /\ jsonRet.err.Field = "Longitude"
                  /\ jsonRet.err.Key = "lon"
                  /\ jsonRet.err.Value = TextOf(b.lon)
            /\ (Decodable(b) /\ ~lonBad /\ latBad) =>
                  /\ jsonRet.err.kind = "UnmarshalError"
                  /\ jsonRet.err.Field = "Latitude"
                  /\ jsonRet.err.Key = "lat"
                  /\ jsonRet.err.Value = TextOf(b.lat)

\* Both texts are present and unparseable, and differ.
C7_Witness ==
    /\ jsonRet.called
    /\ b.kind = "object" /\ b.lat.kind = "string" /\ b.lon.kind = "string"
    /\ b.lat.s # b.lon.s
    /\ ~Parses(b.lat.s) /\ ~Parses(b.lon.s)
    /\ jsonRet.err.kind = "UnmarshalError"
    /\ jsonRet.err.Field = "Longitude"

\* C10 as claimed: whenever UnmarshalJSON returns an error, Latitude and
\* Longitude hold the values they had before the call.
C10_ReceiverUnchangedOnError ==
    (jsonRet.called /\ jsonRet.err # NilError) => c = cPre

\* What ParseFloat returns beside an error: 0 for a syntax error, the
\* infinity of the text's sign for a value out of range.
FailValue(numError) ==
    IF numError.Err = "ErrSyntax" THEN Zero
    ELSE Inf(Len(numError.Num) > 0 /\ numError.Num[1] = "-")

\* C10, amended: the receiver is unchanged when the document does not
\* decode.  When "lon" does not parse, Latitude is unchanged and Longitude
\* is what ParseFloat returned beside its error; when "lon" parses and
\* "lat" does not, Longitude is the parsed "lon" and Latitude is what
\* ParseFloat returned beside its error.
C10_ReceiverOnError ==
    (jsonRet.called /\ jsonRet.err # NilError) =>
        CASE jsonRet.err.kind = "Wrap" -> c = cPre
          [] jsonRet.err.kind = "UnmarshalError" /\ jsonRet.err.Field = "Longitude" ->
                /\ c.Latitude = cPre.Latitude
                /\ c.Longitude = FailValue(jsonRet.err.cause)
          [] jsonRet.err.kind = "UnmarshalError" /\ jsonRet.err.Field = "Latitude" ->
                /\ c.Longitude = ParseFloat(TextOf(b.lon)).f
                /\ c.Latitude = FailValue(jsonRet.err.cause)

\* "lon" parsed into a receiver that held another longitude, "lat" did not
\* parse.
C10_Witness ==
    /\ jsonRet.called
    /\ jsonRet.err.kind = "UnmarshalError"
    /\ jsonRet.err.Field = "Latitude"
    /\ c.Longitude # cPre.Longitude
    /\ c.Latitude # cPre.Latitude

====
